---- MODULE Spec2Model ----
(***************************************************************************)
(* A model of the neurosecure-africa wearable pipeline:                    *)
(*   security.py       encrypt_data / decrypt_data / secure_local_save     *)
(*   preprocessing.py  segment_sleep_cycles                                *)
(* Byte strings are sequences over 0..255.  The AES block primitive of the *)
(* crypto library is modelled by a keyed permutation of 16-byte blocks;    *)
(* the CBC chaining, the PKCS#7 padding, the key and IV length checks, the *)
(* exception handlers and the file write are modelled as the code and the  *)
(* library perform them.                                                   *)
(***************************************************************************)
EXTENDS Integers, Sequences, FiniteSets, TLC

\* ------------------------------------------------------------------ bounds
\* longest plaintext handed to encrypt_data (covers n = 0, n < 16, n = 16, n > 16)
MaxLen == 17

\* ------------------------------------------------------- program constants
KEY_SIZE == 32
BLOCK_SIZE == 16

\* ------------------------------------------------------------ byte helpers
Min(a, b) == IF a < b THEN a ELSE b

\* b[lo:hi] of Python (0-based, hi exclusive, clamped to the length)
Slice(b, lo, hi) == SubSeq(b, Min(lo, Len(b)) + 1, Min(hi, Len(b)))

\* bchr(v) * n
Repeat(v, n) == [i \in 1..n |-> v]

\* a ^ b on naturals, bit by bit
RECURSIVE XorBits(_, _)
XorBits(a, b) ==
    IF a = 0 THEN b
    ELSE IF b = 0 THEN a
    ELSE ((a + b) % 2) + 2 * XorBits(a \div 2, b \div 2)

\* the same on bytes, tabulated once
XorTable == [a \in 0..255 |-> [b \in 0..255 |-> XorBits(a, b)]]

Xor(a, b) == XorTable[a][b]

XorBlock(x, y) == [i \in 1..BLOCK_SIZE |-> Xor(x[i], y[i])]

RECURSIVE SumBytes(_)
SumBytes(b) == IF b = <<>> THEN 0 ELSE Head(b) + SumBytes(Tail(b))

\* ------------------------------------------------- the AES library object
\* key lengths AES.new accepts (16: AES-128, 24: AES-192, 32: AES-256)
AESKeySizes == {16, 24, 32}

\* AES.new(key, AES.MODE_CBC, iv): FALSE is its ValueError for a key or an IV of a
\* wrong length
AESNew(key, iv) == Len(key) \in AESKeySizes /\ Len(iv) = BLOCK_SIZE

\* the key schedule: the round key the block permutation works with
ExpandKey(key) == (SumBytes(key) + Len(key)) % 256

\* the block cipher under round key rk: a permutation of the 16-byte blocks
\* (bytewise affine map with an odd multiplier, then a rotation of the positions)
EncryptBlock(rk, b) ==
    [i \in 1..BLOCK_SIZE |-> (5 * b[(i % BLOCK_SIZE) + 1] + rk) % 256]

\* its inverse: 205 * 5 = 1 (mod 256)
DecryptBlock(rk, c) ==
    [j \in 1..BLOCK_SIZE |->
        (205 * (c[((j + BLOCK_SIZE - 2) % BLOCK_SIZE) + 1] + 256 - rk)) % 256]

\* cipher.encrypt(padded) in CBC mode: c_i = E_k(p_i xor c_{i-1}), c_0 = iv
RECURSIVE CBCEncryptBlocks(_, _, _)
CBCEncryptBlocks(rk, prev, padded) ==
    IF padded = <<>> THEN <<>>
    ELSE LET c == EncryptBlock(rk, XorBlock(SubSeq(padded, 1, BLOCK_SIZE), prev))
         IN  c \o CBCEncryptBlocks(rk, c, SubSeq(padded, BLOCK_SIZE + 1, Len(padded)))

CBCEncrypt(key, iv, padded) == CBCEncryptBlocks(ExpandKey(key), iv, padded)

\* cipher.decrypt(ciphertext) in CBC mode: p_i = D_k(c_i) xor c_{i-1}
RECURSIVE CBCDecryptBlocks(_, _, _)
CBCDecryptBlocks(rk, prev, ciphertext) ==
    IF ciphertext = <<>> THEN <<>>
    ELSE LET c == SubSeq(ciphertext, 1, BLOCK_SIZE)
         IN  XorBlock(DecryptBlock(rk, c), prev)
                 \o CBCDecryptBlocks(rk, c, SubSeq(ciphertext, BLOCK_SIZE + 1, Len(ciphertext)))

\* (a variant that chains every block to the IV instead of the previous ciphertext block)
RECURSIVE CBCDecryptUnchainedBlocks(_, _, _)
CBCDecryptUnchainedBlocks(rk, iv, ciphertext) ==
    IF ciphertext = <<>> THEN <<>>
    ELSE XorBlock(DecryptBlock(rk, SubSeq(ciphertext, 1, BLOCK_SIZE)), iv)
             \o CBCDecryptUnchainedBlocks(rk, iv, SubSeq(ciphertext, BLOCK_SIZE + 1, Len(ciphertext)))

CBCDecryptUnchained(key, iv, ciphertext) ==
    CBCDecryptUnchainedBlocks(ExpandKey(key), iv, ciphertext)

CBCDecrypt(key, iv, ciphertext) == CBCDecryptBlocks(ExpandKey(key), iv, ciphertext)

\* (a variant that adds no block to data already aligned)
padNoFullBlock(data) ==
    LET padding_len == (BLOCK_SIZE - (Len(data) % BLOCK_SIZE)) % BLOCK_SIZE
    IN  data \o Repeat(padding_len, padding_len)

\* Crypto.Util.Padding.pad(data, BLOCK_SIZE), style pkcs7
pad(data) ==
    LET padding_len == BLOCK_SIZE - (Len(data) % BLOCK_SIZE)
    IN  data \o Repeat(padding_len, padding_len)

\* Crypto.Util.Padding.unpad(padded, BLOCK_SIZE), style pkcs7: ok = FALSE is ValueError
unpad(padded) ==
    LET pdata_len == Len(padded)
    IN  IF pdata_len = 0 THEN [ok |-> FALSE, val |-> <<>>]
        ELSE IF pdata_len % BLOCK_SIZE # 0 THEN [ok |-> FALSE, val |-> <<>>]
        ELSE LET padding_len == padded[pdata_len]
             IN  IF padding_len < 1 \/ padding_len > Min(BLOCK_SIZE, pdata_len)
                 THEN [ok |-> FALSE, val |-> <<>>]
                 ELSE IF SubSeq(padded, pdata_len - padding_len + 1, pdata_len)
                             # Repeat(padding_len, padding_len)
                 THEN [ok |-> FALSE, val |-> <<>>]
                 ELSE [ok |-> TRUE, val |-> SubSeq(padded, 1, pdata_len - padding_len)]

\* ------------------------------------------------------------ security.py
\* What a call hands back to its caller:
\*   kind      "return" (a value) or "raise" (an exception reaches the caller)
\*   val       the returned bytes
\*   exc       the exception's type when kind = "raise", else "none"
\*   caught    an exception was caught inside the call and only printed
\*   ciphered  cipher.encrypt / cipher.decrypt was invoked
Returned(val, caught, ciphered) ==
    [kind |-> "return", val |-> val, exc |-> "none", caught |-> caught, ciphered |-> ciphered]

\* (a variant that returns the ciphertext without the IV in front)
EncryptDataNoIV(data, key, iv) ==
    IF ~AESNew(key, iv)
    THEN Returned(data, TRUE, FALSE)
    ELSE Returned(CBCEncrypt(key, iv, pad(data)), FALSE, TRUE)

\* encrypt_data(data, key), iv being what get_random_bytes(BLOCK_SIZE) gave
EncryptData(data, key, iv) ==
    IF ~AESNew(key, iv)
    THEN Returned(data, TRUE, FALSE)
    ELSE Returned(iv \o CBCEncrypt(key, iv, pad(data)), FALSE, TRUE)

\* decrypt_data(encrypted_data, key)
DecryptData(encrypted_data, key) ==
    LET iv == Slice(encrypted_data, 0, BLOCK_SIZE)
        ciphertext == Slice(encrypted_data, BLOCK_SIZE, Len(encrypted_data))
    IN  IF ~AESNew(key, iv) THEN Returned(<<>>, TRUE, FALSE)
        ELSE IF Len(ciphertext) % BLOCK_SIZE # 0 THEN Returned(<<>>, TRUE, TRUE)
        ELSE LET plaintext == unpad(CBCDecrypt(key, iv, ciphertext))
             IN  IF ~plaintext.ok THEN Returned(<<>>, TRUE, TRUE)
                 ELSE Returned(plaintext.val, FALSE, TRUE)

\* ------------------------------------------------------------------ state
VARIABLES
    data,       \* the caller's plaintext bytes
    key,        \* the caller's key bytes
    encCall,    \* the latest encrypt_data call: its arguments, its IV, its outcome
    earlier,    \* the [iv, env] of the encrypt_data calls before the latest
    decCall,    \* the latest decrypt_data call, on (a damaged copy of) encCall's result
    files,      \* the file system: path -> [exists, bytes]
    lastSave,   \* the latest secure_local_save call: its arguments, its IV, its outcome
    readBack,   \* the latest read of the saved file and decrypt_data on its contents
    task,       \* concurrent callers: caller -> the operation it runs
    pc,         \* concurrent callers: caller -> where it is in its operation
    local,      \* concurrent callers: caller -> its local variables and its result
    normalized_data,        \* segment_sleep_cycles: the samples
    sleep_stage_markers,    \* segment_sleep_cycles: one stage label per sample
    segmented,              \* segment_sleep_cycles: what the call returned
    high_risk_prob,         \* ai_analysis: the predictor's high-risk probability, num/den
    rem_data,               \* ai_analysis: the session's REM segment
    analysis,               \* ai_analysis: the latest classify_risk / run_ai_analysis call
    app_globals,            \* app_integration: the names bound in the module's namespace
    connection,             \* app_integration: the latest connect_to_eeg_handler call
    report,                 \* app_integration: the latest transmit_analysis_report call
    payment                 \* app_integration: the latest process_fintech_transaction call

cryptoVars == <<data, key, encCall, earlier, decCall>>
saveVars == <<lastSave, readBack>>
concVars == <<task, pc, local>>
segVars == <<normalized_data, sleep_stage_markers, segmented>>

riskVars == <<high_risk_prob, rem_data, analysis>>

appVars == <<app_globals, connection, report, payment>>

vars == <<cryptoVars, files, saveVars, concVars, segVars, riskVars, appVars>>

\* ------------------------------------------------------------------ inputs
\* get_random_bytes(n): n bytes, one of the values the random source may give
RandomBytes(n, seed) == [i \in 1..n |-> (seed * 17 + i * 29) % 256]

\* generate_key(): KEY_SIZE random bytes
generate_key(seed) == RandomBytes(KEY_SIZE, seed)

KeySeeds == {1, 2}
IVSeeds == {3, 4}

\* key lengths a caller may also pass: too short, AES-128, AES-192
OtherKeyLens == {5, 16, 24}

Keys == {generate_key(s) : s \in KeySeeds} \cup {RandomBytes(n, 5) : n \in OtherKeyLens}

IVs == {RandomBytes(BLOCK_SIZE, s) : s \in IVSeeds}

\* a plaintext of n bytes; every third byte is 1, so that plaintexts end in bytes
\* that read as padding
Payload(n) == [i \in 1..n |-> IF i % 3 = 0 THEN 1 ELSE (37 * i) % 256]

Payloads == {Payload(n) : n \in 0..MaxLen}

\* what a caller may hand to decrypt_data, given the bytes e that encrypt_data returned
Damage == {"intact", "short", "iv_only", "unaligned", "corrupt"}

Damaged(e, how) ==
    CASE how = "intact" -> e
      [] how = "short" -> Slice(e, 0, 10)
      [] how = "iv_only" -> Slice(e, 0, BLOCK_SIZE)
      [] how = "unaligned" -> Slice(e, 0, Len(e) - 1)
      [] how = "corrupt" ->
            [i \in 1..Len(e) |-> IF i > Len(e) - BLOCK_SIZE THEN (e[i] + 1) % 256 ELSE e[i]]

NoCall == [op |-> "none"]

\* ------------------------------------------------------------ file system
Paths == {"temp_neurodata.enc"}

NoFile == [exists |-> FALSE, bytes |-> <<>>]
File(b) == [exists |-> TRUE, bytes |-> b]

\* what a file may hold before the first save: nothing, or an older report
OldReport == File(<<79, 76, 68>>)

IdleSave ==
    /\ lastSave = NoCall
    /\ readBack = NoCall

IdleFiles == files = [p \in Paths |-> NoFile]

IdleConc ==
    /\ task = <<>>
    /\ pc = <<>>
    /\ local = <<>>

IdleApp ==
    /\ app_globals = {}
    /\ connection = NoCall
    /\ report = NoCall
    /\ payment = NoCall

IdleRisk ==
    /\ high_risk_prob = [num |-> 0, den |-> 1]
    /\ rem_data = <<>>
    /\ analysis = NoCall

IdleSeg ==
    /\ normalized_data = <<>>
    /\ sleep_stage_markers = <<>>
    /\ segmented = NoCall

IdleCrypto ==
    /\ data = <<>>
    /\ key = <<>>
    /\ encCall = NoCall
    /\ earlier = {}
    /\ decCall = NoCall

\* ------------------------------------------- the pure calls (security.py)
InitCrypto ==
    /\ data \in Payloads
    /\ key \in Keys
    /\ encCall = NoCall
    /\ earlier = {}
    /\ decCall = NoCall

Init == InitCrypto /\ IdleFiles /\ IdleSave /\ IdleConc /\ IdleSeg /\ IdleRisk /\ IdleApp

\* encrypted_content = encrypt_data(data, key)
Encrypt(iv) ==
    /\ encCall' = [op |-> "encrypt_data", data |-> data, key |-> key, iv |-> iv,
                   out |-> EncryptData(data, key, iv)]
    /\ earlier' = IF encCall.op = "none" THEN earlier
                  ELSE earlier \cup {[iv |-> encCall.iv, env |-> encCall.out.val]}
    /\ decCall' = NoCall
    /\ UNCHANGED <<data, key, files, saveVars, concVars, segVars, riskVars, appVars>>

\* decrypted_content = decrypt_data(encrypted_content, k)
Decrypt(how, k) ==
    /\ encCall.op = "encrypt_data"
    /\ LET env == Damaged(encCall.out.val, how)
       IN  decCall' = [op |-> "decrypt_data", how |-> how, env |-> env, key |-> k,
                       out |-> DecryptData(env, k)]
    /\ UNCHANGED <<data, key, encCall, earlier, files, saveVars, concVars, segVars, riskVars, appVars>>

Next ==
    \/ \E iv \in IVs : Encrypt(iv)
    \/ \E how \in Damage, k \in Keys : Decrypt(how, k)

Spec == Init /\ [][Next]_vars

\* --------------------------------------------- secure_local_save (security.py)
\* str.encode('utf-8') of one code point; a surrogate (U+D800..U+DFFF) cannot be encoded
IsSurrogate(cp) == cp >= 55296 /\ cp <= 57343

EncodeCodePoint(cp) ==
    IF cp < 128 THEN <<cp>>
    ELSE IF cp < 2048 THEN <<192 + (cp \div 64), 128 + (cp % 64)>>
    ELSE IF cp < 65536
        THEN <<224 + (cp \div 4096), 128 + ((cp \div 64) % 64), 128 + (cp % 64)>>
    ELSE <<240 + (cp \div 262144), 128 + ((cp \div 4096) % 64),
           128 + ((cp \div 64) % 64), 128 + (cp % 64)>>

RECURSIVE UTF8Encode(_)
UTF8Encode(text) ==
    IF text = <<>> THEN <<>> ELSE EncodeCodePoint(Head(text)) \o UTF8Encode(Tail(text))

Encodable(text) == \A i \in 1..Len(text) : ~IsSurrogate(text[i])

\* the reports a caller saves, as code points: 'hello world', U+00E9 U+20AC U+1F600
\* (2, 3 and 4 bytes in UTF-8) and a lone surrogate
HelloWorld == <<104, 101, 108, 108, 111, 32, 119, 111, 114, 108, 100>>
Accented == <<233, 8364, 128512>>
Texts == {HelloWorld, Accented, <<55296>>}

\* what the storage does to open(filepath, 'wb') and f.write(...)
Storage == {"ok", "open_fails", "write_fails"}

Raised(exc, caught) ==
    [kind |-> "raise", val |-> <<>>, exc |-> exc, caught |-> caught, ciphered |-> FALSE]

\* (a variant that opens the file for appending)
AppendedFile(old, encrypted_bytes) == File(old.bytes \o encrypted_bytes)

\* with open(filepath, 'wb') as f: f.write(encrypted_bytes)
WrittenFile(old, encrypted_bytes) == File(encrypted_bytes)

\* the record of a call; overwrote: the file held bytes when the call began
SaveCall(text, path, k, iv, out) ==
    [op |-> "secure_local_save", text |-> text, path |-> path, key |-> k, iv |-> iv,
     overwrote |-> files[path].bytes # <<>>, out |-> out]

\* secure_local_save(text, path, k): iv is what get_random_bytes gives inside
\* encrypt_data, io what the storage does
Save(text, path, k, iv, io) ==
    /\ readBack' = NoCall
    /\ IF ~Encodable(text)
       THEN /\ lastSave' = SaveCall(text, path, k, <<>>, Raised("UnicodeEncodeError", FALSE))
            /\ files' = files
       ELSE LET data_bytes == UTF8Encode(text)
                encrypted == EncryptData(data_bytes, k, iv)
            IN  CASE io = "open_fails" ->
                        /\ files' = files
                        /\ lastSave' = SaveCall(text, path, k, iv,
                                                Raised("OSError", encrypted.caught))
                  [] io = "write_fails" ->
                        /\ files' = [files EXCEPT ![path] = File(<<>>)]
                        /\ lastSave' = SaveCall(text, path, k, iv,
                                                Raised("OSError", encrypted.caught))
                  [] io = "ok" ->
                        /\ files' = [files EXCEPT
                                        ![path] = WrittenFile(files[path], encrypted.val)]
                        /\ lastSave' = SaveCall(text, path, k, iv,
                                Returned(<<>>, encrypted.caught, encrypted.ciphered))
    /\ UNCHANGED <<cryptoVars, concVars, segVars, riskVars, appVars>>

\* with open(path, 'rb') as f: decrypt_data(f.read(), k)
ReadDecrypt(path, k) ==
    /\ files[path].exists
    /\ readBack' = [op |-> "decrypt_data", path |-> path, env |-> files[path].bytes,
                    key |-> k, out |-> DecryptData(files[path].bytes, k)]
    /\ UNCHANGED <<files, lastSave, cryptoVars, concVars, segVars, riskVars, appVars>>

InitSave ==
    /\ IdleCrypto /\ IdleConc /\ IdleSeg /\ IdleRisk /\ IdleApp
    /\ files \in [Paths -> {NoFile, OldReport}]
    /\ lastSave = NoCall
    /\ readBack = NoCall

NextSave ==
    \/ \E text \in Texts, path \in Paths, k \in Keys, iv \in IVs, io \in Storage :
            Save(text, path, k, iv, io)
    \/ \E path \in Paths, k \in Keys : ReadDecrypt(path, k)

SpecSave == InitSave /\ [][NextSave]_vars

\* ------------------------------------------------------ concurrent callers
\* Callers 1..NumCallers run one operation each, at the same time, each with a key,
\* a payload and a file path of its own.  A step is one statement of the operation;
\* the file system is what the callers share.
NumCallers == 2

Callers == 1..NumCallers

Operations == {"encrypt_data", "decrypt_data", "secure_local_save"}

CallerPaths == <<"report_1.enc", "report_2.enc", "report_3.enc", "report_4.enc">>

\* (a variant in which every caller is given the first caller's path)
SharedPath(c) == CallerPaths[1]

\* the filepath argument of caller c
PathOf(c) == CallerPaths[c]

\* the key argument of caller c
KeyOf(c) == generate_key(c)

\* the text caller c saves; its bytes are the data caller c encrypts
TextOf(c) == (IF c % 2 = 1 THEN HelloWorld ELSE Accented) \o Repeat(33, c \div 2)

\* the envelope caller c decrypts: one made earlier from its data, with its key
EnvelopeOf(c) ==
    EncryptData(UTF8Encode(TextOf(c)), KeyOf(c), RandomBytes(BLOCK_SIZE, c)).val

NoLocals == [data_bytes |-> <<>>, iv |-> <<>>, encrypted_bytes |-> <<>>, result |-> NoCall]

InitConc ==
    /\ IdleCrypto /\ IdleSave /\ IdleSeg /\ IdleRisk /\ IdleApp
    /\ files = [p \in {PathOf(c) : c \in Callers} |-> NoFile]
    /\ task \in [Callers -> Operations]
    /\ pc = [c \in Callers |-> "start"]
    /\ local = [c \in Callers |-> NoLocals]

\* caller c runs encrypt_data(data, key) (lines 31-42)
ConcEncryptData(c, iv) ==
    /\ task[c] = "encrypt_data" /\ pc[c] = "start"
    /\ local' = [local EXCEPT ![c].iv = iv,
                              ![c].result = EncryptData(UTF8Encode(TextOf(c)), KeyOf(c), iv)]
    /\ pc' = [pc EXCEPT ![c] = "done"]
    /\ UNCHANGED <<task, files, cryptoVars, saveVars, segVars, riskVars, appVars>>

\* caller c runs decrypt_data(envelope, key) (lines 59-70)
ConcDecryptData(c) ==
    /\ task[c] = "decrypt_data" /\ pc[c] = "start"
    /\ local' = [local EXCEPT ![c].result = DecryptData(EnvelopeOf(c), KeyOf(c))]
    /\ pc' = [pc EXCEPT ![c] = "done"]
    /\ UNCHANGED <<task, files, cryptoVars, saveVars, segVars, riskVars, appVars>>

\* caller c in secure_local_save, line 85: data_bytes = data_to_save.encode('utf-8')
ConcEncode(c) ==
    /\ task[c] = "secure_local_save" /\ pc[c] = "start"
    /\ local' = [local EXCEPT ![c].data_bytes = UTF8Encode(TextOf(c))]
    /\ pc' = [pc EXCEPT ![c] = "encrypt"]
    /\ UNCHANGED <<task, files, cryptoVars, saveVars, segVars, riskVars, appVars>>

\* line 86: encrypted_bytes = encrypt_data(data_bytes, key)
ConcEncrypt(c, iv) ==
    /\ task[c] = "secure_local_save" /\ pc[c] = "encrypt"
    /\ local' = [local EXCEPT ![c].iv = iv,
                              ![c].encrypted_bytes =
                                    EncryptData(local[c].data_bytes, KeyOf(c), iv).val]
    /\ pc' = [pc EXCEPT ![c] = "open"]
    /\ UNCHANGED <<task, files, cryptoVars, saveVars, segVars, riskVars, appVars>>

\* line 88: open(filepath, 'wb') creates the file or truncates it
ConcOpen(c) ==
    /\ task[c] = "secure_local_save" /\ pc[c] = "open"
    /\ files' = [files EXCEPT ![PathOf(c)] = File(<<>>)]
    /\ pc' = [pc EXCEPT ![c] = "write"]
    /\ UNCHANGED <<task, local, cryptoVars, saveVars, segVars, riskVars, appVars>>

\* line 89: f.write(encrypted_bytes), and the file is closed
ConcWrite(c) ==
    /\ task[c] = "secure_local_save" /\ pc[c] = "write"
    /\ files' = [files EXCEPT ![PathOf(c)] = File(local[c].encrypted_bytes)]
    /\ local' = [local EXCEPT ![c].result = Returned(<<>>, FALSE, TRUE)]
    /\ pc' = [pc EXCEPT ![c] = "done"]
    /\ UNCHANGED <<task, cryptoVars, saveVars, segVars, riskVars, appVars>>

NextConc ==
    \/ \E c \in Callers, iv \in IVs : ConcEncryptData(c, iv)
    \/ \E c \in Callers : ConcDecryptData(c)
    \/ \E c \in Callers : ConcEncode(c)
    \/ \E c \in Callers, iv \in IVs : ConcEncrypt(c, iv)
    \/ \E c \in Callers : ConcOpen(c)
    \/ \E c \in Callers : ConcWrite(c)

SpecConc == InitConc /\ [][NextConc]_vars

\* --------------------------------- segment_sleep_cycles (preprocessing.py)
\* longest recording handed to segment_sleep_cycles
MaxSamples == 3

\* sample values, and stage labels (0 = Wake, 3 = SWS, 4 = REM, 5 = an unknown label)
Samples == {-1, 2}
Stages == {0, 3, 4, 5}

\* np.where(mask)[0]: the positions where the boolean array holds, ascending
Where(mask) == SelectSeq([i \in 1..Len(mask) |-> i], LAMBDA i : mask[i])

\* normalized_data[indices]
Take(samples, indices) == [k \in 1..Len(indices) |-> samples[indices[k]]]

\* sleep_stage_markers == 4
RemMask(markers) == [i \in 1..Len(markers) |-> markers[i] = 4]

\* (a variant that takes every stage that is not REM)
NotRemMask(markers) == [i \in 1..Len(markers) |-> markers[i] # 4]

\* sleep_stage_markers < 4
NonRemMask(markers) == [i \in 1..Len(markers) |-> markers[i] < 4]

\* segment_sleep_cycles(samples, markers), with the index arrays it computed
segment_sleep_cycles(samples, markers) ==
    LET rem_indices == Where(RemMask(markers))
        non_rem_indices == Where(NonRemMask(markers))
    IN  [op |-> "segment_sleep_cycles",
         rem_indices |-> rem_indices,
         non_rem_indices |-> non_rem_indices,
         rem |-> IF Len(rem_indices) > 0 THEN Take(samples, rem_indices) ELSE <<>>,
         non_rem |-> IF Len(non_rem_indices) > 0 THEN Take(samples, non_rem_indices)
                     ELSE <<>>]

InitSeg ==
    /\ IdleCrypto /\ IdleFiles /\ IdleSave /\ IdleConc /\ IdleRisk /\ IdleApp
    /\ \E n \in 0..MaxSamples :
            /\ normalized_data \in [1..n -> Samples]
            /\ sleep_stage_markers \in [1..n -> Stages]
    /\ segmented = NoCall

Segment ==
    /\ segmented' = segment_sleep_cycles(normalized_data, sleep_stage_markers)
    /\ UNCHANGED <<normalized_data, sleep_stage_markers, cryptoVars, files, saveVars,
                   concVars, riskVars, appVars>>

NextSeg == Segment

SpecSeg == InitSeg /\ [][NextSeg]_vars

\* ------------------------------------------------------------ ai_analysis.py
\* A probability is a fraction num/den with 0 <= num <= den; the probabilities a
\* predictor may give are the multiples of 1/ProbGrid
ProbGrid == 200

\* MockModel.predict_proba: [[0.85, 0.15]], whatever the features
MockHighRisk == [num |-> 15, den |-> 100]

\* int(high_risk_prob * 100): the product is a float, so a product that is a whole
\* number exactly may come out just below it and be truncated to one less
\* (int(0.29 * 100) is 28)
IntTimes100(prob) ==
    LET exact == (100 * prob.num) \div prob.den
    IN  IF (100 * prob.num) % prob.den = 0 /\ exact > 0 THEN {exact - 1, exact}
        ELSE {exact}

\* f"{high_risk_prob:.2f}", in hundredths: the nearest, either one at a decimal tie
\* (the float stored lies on one side of it)
TwoDecimals(prob) ==
    LET q == (100 * prob.num) \div prob.den
        r == (100 * prob.num) % prob.den
    IN  IF 2 * r < prob.den THEN {q}
        ELSE IF 2 * r > prob.den THEN {q + 1}
        ELSE {q, q + 1}

\* (a variant whose first threshold is inclusive)
AlertLevelFrom70(risk_score) ==
    IF risk_score >= 70 THEN "CRITICAL"
    ELSE IF risk_score > 40 THEN "ELEVATED"
    ELSE "LOW"

\* the if / elif / else of classify_risk
AlertLevel(risk_score) ==
    IF risk_score > 70 THEN "CRITICAL"
    ELSE IF risk_score > 40 THEN "ELEVATED"
    ELSE "LOW"

Recommendation(risk_score) ==
    IF risk_score > 70 THEN "Immediate consultation with a specialist is advised."
    ELSE IF risk_score > 40
        THEN "Review sleep hygiene and consider a preventative care routine."
    ELSE "Maintain current healthy sleep patterns and check-in regularly."

\* the dictionary classify_risk returns, risk_score and shown being what the float
\* product and the formatting gave
RiskReport(risk_score, shown) ==
    [risk_score |-> risk_score,
     alert_level |-> AlertLevel(risk_score),
     recommendation |-> Recommendation(risk_score),
     high_risk_probability |-> shown]

\* recordings whose REM segment run_ai_analysis is given: none, one sample, two
RemSegments == {<<>>, <<2>>, <<2, -1>>}

InitRisk ==
    /\ IdleCrypto /\ IdleFiles /\ IdleSave /\ IdleConc /\ IdleSeg /\ IdleApp
    /\ \E n \in 0..ProbGrid : high_risk_prob = [num |-> n, den |-> ProbGrid]
    /\ rem_data \in RemSegments
    /\ analysis = NoCall

\* classify_risk(features, model), model.predict_proba giving high_risk_prob
ClassifyRisk(risk_score, shown) ==
    /\ risk_score \in IntTimes100(high_risk_prob)
    /\ shown \in TwoDecimals(high_risk_prob)
    /\ analysis' = [op |-> "classify_risk", prob |-> high_risk_prob,
                    features |-> "given", out |-> RiskReport(risk_score, shown)]
    /\ UNCHANGED <<high_risk_prob, rem_data, cryptoVars, files, saveVars, concVars, segVars, appVars>>

\* run_ai_analysis({'rem': rem_data, ...}): the mock model is loaded, the features are
\* zeros without REM data and what transform gives otherwise, and classify_risk
\* runs on them
RunAIAnalysis(risk_score, shown) ==
    /\ risk_score \in IntTimes100(MockHighRisk)
    /\ shown \in TwoDecimals(MockHighRisk)
    /\ analysis' = [op |-> "run_ai_analysis", prob |-> MockHighRisk,
                    features |-> IF Len(rem_data) = 0 THEN "zeros" ELSE "transformed",
                    out |-> RiskReport(risk_score, shown)]
    /\ UNCHANGED <<high_risk_prob, rem_data, cryptoVars, files, saveVars, concVars, segVars, appVars>>

NextRisk ==
    \/ \E risk_score \in IntTimes100(high_risk_prob), shown \in TwoDecimals(high_risk_prob) :
            ClassifyRisk(risk_score, shown)
    \/ \E risk_score \in IntTimes100(MockHighRisk), shown \in TwoDecimals(MockHighRisk) :
            RunAIAnalysis(risk_score, shown)

SpecRisk == InitRisk /\ [][NextRisk]_vars

\* -------------------------------------------------------- app_integration.py
\* The module's namespace.  The import at the top of the file binds json; time and
\* os are imported only in the "if __name__ == '__main__'" block, so they are bound
\* when the file runs as a script and not when it is imported.
ImportedGlobals == {"json"}
ScriptGlobals == ImportedGlobals \cup {"time", "os"}

\* what a call of this module hands back: a value, or an exception
NoValue ==
    [type |-> "none", status |-> "none", transaction_id |-> <<>>, error |-> "",
     message |-> "", payload |-> NoCall]

AppReturned(val) == [kind |-> "return", exc |-> "none", val |-> val]
AppRaised(exc) == [kind |-> "raise", exc |-> exc, val |-> NoValue]

\* bytes.hex(): two hexadecimal digits (0..15) per byte, high one first
Hex(b) ==
    [i \in 1..(2 * Len(b)) |->
        IF i % 2 = 1 THEN b[(i + 1) \div 2] \div 16 ELSE b[i \div 2] % 16]

\* amounts in thousandths of a dollar: 0, 4.99, 9.99, 9.999, 10, 10.001, 25
Amounts == {0, 4990, 9990, 9999, 10000, 10001, 25000}

\* amount_usd < 10.0
BelowLimit(amount) == amount < 10000

\* f"{amount_usd:.2f}", in cents
ShownCents(amount) == (amount + 5) \div 10

PaidServices == {"Preventative Care", "Premium Report"}
Services == PaidServices \cup {"Gift Card"}

\* device ids, as sequences of characters
DeviceIds == {<<"N", "S", "-", "W", "1">>, <<"X", "X", "-", "1">>, <<"N">>, <<>>}

\* str.startswith
StartsWith(str, prefix) ==
    /\ Len(str) >= Len(prefix)
    /\ \A i \in 1..Len(prefix) : str[i] = prefix[i]

\* what os.urandom(4) and int(time.time()) may give
UrandomSeeds == {6, 7}
Timestamps == {1700000000, 1700000001}

\* the analysis results handed to transmit_analysis_report
AnalysisOutputs == {RiskReport(65, 65), RiskReport(15, 15)}

InitApp ==
    /\ IdleCrypto /\ IdleFiles /\ IdleSave /\ IdleConc /\ IdleSeg /\ IdleRisk
    /\ app_globals \in {ImportedGlobals, ScriptGlobals}
    /\ connection = NoCall
    /\ report = NoCall
    /\ payment = NoCall

\* connect_to_eeg_handler(device_id): its "import time" binds a local name only
ConnectToEEGHandler(device_id) ==
    /\ connection' = [op |-> "connect_to_eeg_handler", device_id |-> device_id,
                      out |-> StartsWith(device_id, <<"N", "S">>)]
    /\ UNCHANGED <<app_globals, report, payment, cryptoVars, files, saveVars, concVars,
                   segVars, riskVars>>

\* transmit_analysis_report(analysis_output): time is looked up in the module's
\* namespace (NameError when it is not bound), then json.dumps gives a string
TransmitAnalysisReport(analysis_output, now) ==
    /\ report' =
            [op |-> "transmit_analysis_report", data |-> analysis_output,
             out |-> IF "time" \notin app_globals THEN AppRaised("NameError")
                     ELSE AppReturned([NoValue EXCEPT
                            !.type = "str",
                            !.payload = [timestamp |-> now, report_version |-> "1.0",
                                         data |-> analysis_output]])]
    /\ UNCHANGED <<app_globals, connection, payment, cryptoVars, files, saveVars, concVars,
                   segVars, riskVars>>

\* process_fintech_transaction(user_id, amount_usd, service): the success branch looks
\* os up in the module's namespace (NameError when it is not bound)
ProcessFintechTransaction(amount, service, seed) ==
    /\ payment' =
            [op |-> "process_fintech_transaction", amount |-> amount, service |-> service,
             out |-> IF BelowLimit(amount) /\ service \in PaidServices
                     THEN IF "os" \notin app_globals THEN AppRaised("NameError")
                          ELSE AppReturned([NoValue EXCEPT
                                !.type = "dict",
                                !.status = "SUCCESS",
                                !.transaction_id = Hex(RandomBytes(4, seed)),
                                !.message = "Micro-payment processed successfully",
                                !.payload = [cents |-> ShownCents(amount),
                                             service |-> service]])
                     ELSE AppReturned([NoValue EXCEPT
                            !.type = "dict",
                            !.status = "FAILED",
                            !.error = "FinTech transaction mock failed. Invalid amount or service."])]
    /\ UNCHANGED <<app_globals, connection, report, cryptoVars, files, saveVars, concVars,
                   segVars, riskVars>>

NextApp ==
    \/ \E device_id \in DeviceIds : ConnectToEEGHandler(device_id)
    \/ \E analysis_output \in AnalysisOutputs, now \in Timestamps :
            TransmitAnalysisReport(analysis_output, now)
    \/ \E amount \in Amounts, service \in Services, seed \in UrandomSeeds :
            ProcessFintechTransaction(amount, service, seed)

SpecApp == InitApp /\ [][NextApp]_vars

\* ----------------------------------------------------- the claims on Spec
ValidKey(k) == Len(k) = KEY_SIZE

\* ceil(a / b) for a >= 0, b > 0
CeilDiv(a, b) == (a + b - 1) \div b

\* the explicit failures the specification asks for
Fails(out, exc) == out.kind = "raise" /\ out.exc = exc

\* the latest decrypt_data call was handed the latest envelope untouched, with its key
RoundTripped ==
    /\ decCall.op = "decrypt_data"
    /\ decCall.how = "intact"
    /\ decCall.key = encCall.key

\* C1: round trip.  For every plaintext p (empty, unaligned or aligned) and every
\* 32-byte key k, decrypt_data(encrypt_data(p, k), k) returns exactly p.
C1_RoundTrip ==
    (RoundTripped /\ ValidKey(encCall.key)) =>
        (decCall.out.kind = "return" /\ decCall.out.val = encCall.data)

\* C1 witness: a plaintext longer than one block and not aligned came back
C1_Witness ==
    /\ RoundTripped /\ ValidKey(encCall.key)
    /\ Len(encCall.data) > BLOCK_SIZE
    /\ Len(encCall.data) % BLOCK_SIZE # 0
    /\ decCall.out.val = encCall.data

\* C2 (as claimed): key length validation.  With a key whose length is not 32 (16 and
\* 24 included), encrypt_data and decrypt_data both end in an InvalidKeyError and
\* perform no cipher operation.
C2_KeyLengthValidated ==
    /\ (encCall.op = "encrypt_data" /\ ~ValidKey(encCall.key)) =>
            (Fails(encCall.out, "InvalidKeyError") /\ ~encCall.out.ciphered)
    /\ (decCall.op = "decrypt_data" /\ ~ValidKey(decCall.key)) =>
            (Fails(decCall.out, "InvalidKeyError") /\ ~decCall.out.ciphered)

\* an envelope around iv: the IV, then a non-empty whole number of blocks
IsEnvelope(b, iv) ==
    /\ Len(b) > BLOCK_SIZE
    /\ (Len(b) - BLOCK_SIZE) % BLOCK_SIZE = 0
    /\ Slice(b, 0, BLOCK_SIZE) = iv

\* C3 (as claimed): encrypt_data never silently returns the plaintext.  Its outcome is
\* an explicit failure or an envelope IV || ciphertext; no failure inside it ends in
\* the input bytes being returned.
C3_NoPlaintextFallback ==
    encCall.op = "encrypt_data" =>
        \/ encCall.out.kind = "raise"
        \/ /\ encCall.out.kind = "return"
           /\ ~encCall.out.caught
           /\ IsEnvelope(encCall.out.val, encCall.iv)

\* the envelopes decrypt_data must refuse by their length alone
Malformed(env) ==
    \/ Len(env) < BLOCK_SIZE
    \/ Len(env) = BLOCK_SIZE
    \/ (Len(env) - BLOCK_SIZE) % BLOCK_SIZE # 0

\* C4 (as claimed, for 32-byte keys): decrypt_data signals failure explicitly.  A short
\* envelope, a ciphertext that is empty or not a whole number of blocks, or malformed
\* padding ends in a DecryptionError, and b'' is never returned for a failure: a
\* returned b'' means that the plaintext was empty.
C4_DecryptFailsLoudly ==
    (decCall.op = "decrypt_data" /\ ValidKey(decCall.key) /\ ValidKey(encCall.key)) =>
        /\ (Malformed(decCall.env) \/ decCall.out.caught) =>
                Fails(decCall.out, "DecryptionError")
        /\ (decCall.out.kind = "return" /\ decCall.out.val = <<>>) =>
                (~decCall.out.caught /\ encCall.data = <<>>)

\* C6: envelope shape.  With a 32-byte key, a plaintext of n bytes gives exactly
\* 16 + 16 * ceil((n + 1) / 16) bytes: the 16-byte IV, then a non-empty ciphertext
\* that is a whole number of blocks (a full block of padding when n is aligned).
C6_EnvelopeShape ==
    (encCall.op = "encrypt_data" /\ ValidKey(encCall.key)) =>
        /\ Len(encCall.out.val) = 16 + 16 * CeilDiv(Len(encCall.data) + 1, 16)
        /\ IsEnvelope(encCall.out.val, encCall.iv)

\* C6 witness: an aligned, non-empty plaintext got a full block of padding
C6_Witness ==
    /\ encCall.op = "encrypt_data" /\ ValidKey(encCall.key)
    /\ Len(encCall.data) = BLOCK_SIZE
    /\ Len(encCall.out.val) = 3 * BLOCK_SIZE

\* C8 (as claimed, for the 32-byte keys the specification covers): IV freshness.
\* Every encrypt_data call uses an IV no earlier call with that key used, two calls
\* with the same plaintext and key return different envelopes, and the first 16
\* bytes of the envelope are the call's IV.
C8_IVNeverReused ==
    (encCall.op = "encrypt_data" /\ ValidKey(encCall.key)) =>
        /\ Slice(encCall.out.val, 0, BLOCK_SIZE) = encCall.iv
        /\ \A e \in earlier : e.iv # encCall.iv /\ e.env # encCall.out.val

\* C8 (amended): with a 32-byte key, every encrypt_data call puts the 16 bytes it drew
\* from the random source in front of its envelope, and two calls with the same
\* plaintext and key return different envelopes exactly when their IVs differ;
\* nothing keeps the random source from giving an IV again.
C8_IVDecidesEnvelope ==
    (encCall.op = "encrypt_data" /\ ValidKey(encCall.key)) =>
        /\ Len(encCall.iv) = BLOCK_SIZE
        /\ Slice(encCall.out.val, 0, BLOCK_SIZE) = encCall.iv
        /\ \A e \in earlier : (e.env # encCall.out.val) <=> (e.iv # encCall.iv)

\* C8 witness: two calls with the same plaintext and key, different IVs and envelopes
C8_Witness ==
    /\ encCall.op = "encrypt_data" /\ ValidKey(encCall.key)
    /\ \E e \in earlier : e.iv # encCall.iv /\ e.env # encCall.out.val

\* ------------------------------------------------- the claims on SpecSave
\* the step is a secure_local_save call with a key that is not 32 bytes long
BadKeySaveStep ==
    /\ lastSave' # lastSave
    /\ lastSave'.op = "secure_local_save"
    /\ ~ValidKey(lastSave'.key)

\* C5 (as claimed): fail fast on save.  A secure_local_save call with an invalid key
\* gives its caller an error before any file write: the file is left as it was, and
\* never holds the unencrypted UTF-8 plaintext.
C5_FailFast ==
    [][BadKeySaveStep =>
        /\ lastSave'.out.kind = "raise"
        /\ files' = files
        /\ ~(Encodable(lastSave'.text)
              /\ files'[lastSave'.path] = File(UTF8Encode(lastSave'.text)))]_vars

\* the latest secure_local_save call returned normally and had a 32-byte key
Saved == lastSave.op = "secure_local_save" /\ lastSave.out.kind = "return"
            /\ ValidKey(lastSave.key)

\* C7: persistence.  After secure_local_save calls with 32-byte keys to one path, the
\* file holds exactly the envelope of the latest call (IV, then the ciphertext of the
\* padded UTF-8 text; the earlier contents gone, nothing added), and decrypt_data on
\* the file's contents with that call's key gives the UTF-8 bytes of its text.
C7_Persistence ==
    Saved =>
        LET f == files[lastSave.path]
            plain == UTF8Encode(lastSave.text)
        IN  /\ f.exists
            /\ IsEnvelope(f.bytes, lastSave.iv)
            /\ Len(f.bytes) = 16 + 16 * CeilDiv(Len(plain) + 1, 16)
            /\ f.bytes = lastSave.iv \o CBCEncrypt(lastSave.key, lastSave.iv, pad(plain))
            /\ (readBack.op = "decrypt_data" /\ readBack.key = lastSave.key) =>
                    /\ readBack.env = f.bytes
                    /\ readBack.out.kind = "return"
                    /\ readBack.out.val = plain

\* C7 witness: a save over a file that held bytes, read back and decrypted to the
\* UTF-8 bytes of U+00E9 U+20AC U+1F600
C7_Witness ==
    /\ Saved
    /\ lastSave.overwrote
    /\ lastSave.text = Accented
    /\ readBack.op = "decrypt_data" /\ readBack.key = lastSave.key
    /\ readBack.out.val = <<195, 169, 226, 130, 172, 240, 159, 152, 128>>

\* ------------------------------------------------- the claims on SpecConc
\* what caller c's operation gives when it runs alone and draws iv: the value it
\* returns, and the file it leaves at its path
AloneResult(c, iv) ==
    CASE task[c] = "encrypt_data" -> EncryptData(UTF8Encode(TextOf(c)), KeyOf(c), iv)
      [] task[c] = "decrypt_data" -> Returned(UTF8Encode(TextOf(c)), FALSE, TRUE)
      [] task[c] = "secure_local_save" -> Returned(<<>>, FALSE, TRUE)

AloneFile(c, iv) ==
    IF task[c] = "secure_local_save"
    THEN File(iv \o CBCEncrypt(KeyOf(c), iv, pad(UTF8Encode(TextOf(c)))))
    ELSE NoFile

\* C9: independence of concurrent calls.  Under every interleaving of callers with
\* keys, data and file paths of their own, a finished call has returned what it
\* returns alone (given the IV it drew) and its file holds what it holds alone,
\* whatever the other callers have done or are doing.
C9_Independent ==
    \A c \in Callers :
        pc[c] = "done" =>
            /\ local[c].result = AloneResult(c, local[c].iv)
            /\ files[PathOf(c)] = AloneFile(c, local[c].iv)
            /\ task[c] = "secure_local_save" =>
                    DecryptData(files[PathOf(c)].bytes, KeyOf(c)).val = UTF8Encode(TextOf(c))

\* C9 witness: two saves in flight at once, one finished with its file whole while
\* the other has opened its file and not yet written it
C9_Witness ==
    \E c, d \in Callers :
        /\ c # d
        /\ task[c] = "secure_local_save" /\ task[d] = "secure_local_save"
        /\ pc[c] = "done" /\ pc[d] = "write"
        /\ files[PathOf(c)] = AloneFile(c, local[c].iv)
        /\ files[PathOf(d)] = File(<<>>)

\* -------------------------------------------------- the claims on SpecSeg
\* the positions whose marker satisfies a test, and the rank of a position among them
RemAt == {i \in 1..Len(sleep_stage_markers) : sleep_stage_markers[i] = 4}
NonRemAt == {i \in 1..Len(sleep_stage_markers) : sleep_stage_markers[i] < 4}
Rank(S, i) == Cardinality({j \in S : j <= i})
Range(q) == {q[k] : k \in 1..Len(q)}

\* the segment seg holds exactly the samples at the positions S, in their order
HoldsExactly(seg, S) ==
    /\ Len(seg) = Cardinality(S)
    /\ \A i \in S : seg[Rank(S, i)] = normalized_data[i]

AlertLevels == {"CRITICAL", "ELEVATED", "LOW"}

\* C11: classify_risk maps every high-risk probability in [0, 1] to an integer
\* risk_score in 0..100 and to exactly one alert level: CRITICAL iff risk_score > 70,
\* ELEVATED iff 40 < risk_score <= 70, LOW iff risk_score <= 40; run_ai_analysis
\* returns such a result also for a session without REM data.
C11_RiskClassified ==
    analysis.op \in {"classify_risk", "run_ai_analysis"} =>
        LET out == analysis.out
        IN  /\ out.risk_score \in 0..100
            /\ out.alert_level \in AlertLevels
            /\ (out.alert_level = "CRITICAL") <=> (out.risk_score > 70)
            /\ (out.alert_level = "ELEVATED") <=> (40 < out.risk_score /\ out.risk_score <= 70)
            /\ (out.alert_level = "LOW") <=> (out.risk_score <= 40)
            /\ out.risk_score * analysis.prob.den <= 100 * analysis.prob.num
            /\ 100 * analysis.prob.num < (out.risk_score + 2) * analysis.prob.den

\* C11 witness: run_ai_analysis on a session without REM data classified the zero
\* feature vector
C11_Witness ==
    /\ analysis.op = "run_ai_analysis"
    /\ rem_data = <<>>
    /\ analysis.features = "zeros"
    /\ analysis.out.alert_level = "LOW"
    /\ analysis.out.risk_score = 15

\* -------------------------------------------------- the claims on SpecApp
\* C12 (as claimed): process_fintech_transaction always returns a dictionary with the
\* transaction status: SUCCESS with a transaction_id exactly when amount_usd < 10.0
\* and the service is "Preventative Care" or "Premium Report", FAILED with an error
\* message otherwise, whether the module runs as a script or is imported; and
\* transmit_analysis_report always returns a JSON string.
C12_AlwaysReturnsStatus ==
    /\ payment.op = "process_fintech_transaction" =>
            /\ payment.out.kind = "return"
            /\ payment.out.val.type = "dict"
            /\ IF payment.amount < 10000 /\ payment.service \in PaidServices
               THEN /\ payment.out.val.status = "SUCCESS"
                    /\ Len(payment.out.val.transaction_id) = 8
               ELSE /\ payment.out.val.status = "FAILED"
                    /\ payment.out.val.error # ""
    /\ report.op = "transmit_analysis_report" =>
            /\ report.out.kind = "return"
            /\ report.out.val.type = "str"

====
